---- MODULE Spec2Model ----
(***************************************************************************)
(* Model of verification/traits/src/lib.rs: the VerificationStep trait,    *)
(* the And and Or combinators, the AlwaysTrue / AlwaysFalse leaves and the *)
(* Node leaf of the test module, which records that it was invoked.        *)
(*                                                                         *)
(* A step is a record tagged with its concrete type in the field kind.     *)
(* A Result<()> is Ok or Err(e), where e is a VerificationError, the tuple *)
(* struct VerificationError(String), written as the 1-tuple <<message>>.   *)
(* verify returns, besides the Result, the step as the call left it (the   *)
(* Cell<bool> of a Node is interior state) and the list of verify()        *)
(* invocations the call made, in the order they were entered.              *)
(***************************************************************************)
EXTENDS Naturals, Sequences, FiniteSets

VARIABLES step, results, trace

vars == <<step, results, trace>>

\* Bounds of the model.
MaxLeaves == 3
MaxCalls == 2

\* Messages a caller hands to Node::new; any String is accepted.
Messages == {"", "First", "Second"}

--------------------------------------------------------------------------
\* Result<()> and VerificationError

Ok == [tag |-> "Ok"]

Err(e) == [tag |-> "Err", error |-> e]

IsOk(r) == r.tag = "Ok"

IsErr(r) == r.tag = "Err"

\* impl<S: Into<String>> From<S> for VerificationError
VerificationErrorFrom(message) == <<message>>

--------------------------------------------------------------------------
\* Constructors

AlwaysTrue == [kind |-> "AlwaysTrue"]

AlwaysFalse == [kind |-> "AlwaysFalse"]

NodeNew(succeed, message) ==
    [kind |-> "Node", succeed |-> succeed, message |-> message,
     verified_called |-> FALSE]

AndNew(l, r) == [kind |-> "And", left |-> l, right |-> r]

OrNew(l, r) == [kind |-> "Or", left |-> l, right |-> r]

\* Accessors of And and Or
left(self) == self.left

right(self) == self.right

Leaves ==
    {AlwaysTrue, AlwaysFalse}
        \cup {NodeNew(s, m) : s \in BOOLEAN, m \in Messages}

RECURSIVE StepsWithLeaves(_)
StepsWithLeaves(n) ==
    IF n = 1 THEN Leaves
    ELSE UNION { {AndNew(l, r) : l \in StepsWithLeaves(i),
                                 r \in StepsWithLeaves(n - i)}
                 \cup {OrNew(l, r) : l \in StepsWithLeaves(i),
                                     r \in StepsWithLeaves(n - i)}
                 : i \in 1..(n - 1) }

\* step is a leaf, or an And or an Or over two smaller trees, with at most
\* MaxLeaves leaves in all.
IsStep(s) ==
    \/ s \in Leaves
    \/ \E n \in 2..MaxLeaves : \E i \in 1..(n - 1) :
           \E l \in StepsWithLeaves(i), r \in StepsWithLeaves(n - i) :
               s \in {AndNew(l, r), OrNew(l, r)}

--------------------------------------------------------------------------
\* verify()

\* What one verify() call hands back: the Result, the step after the call
\* and the invocations made below it.
Outcome(result, self, calls) ==
    [result |-> result, self |-> self, trace |-> calls]

AlwaysTrueVerify(self, path) == Outcome(Ok, self, <<>>)

AlwaysFalseVerify(self, path) ==
    Outcome(Err(VerificationErrorFrom("AlwaysFalse")), self, <<>>)

NodeVerifyAlwaysOk(self, path) ==
    Outcome(Ok, [self EXCEPT !.verified_called = TRUE], <<>>)

NodeVerifyOnce(self, path) ==
    Outcome(IF self.succeed /\ ~self.verified_called
            THEN Ok
            ELSE Err(VerificationErrorFrom(self.message)),
            [self EXCEPT !.verified_called = TRUE], <<>>)

NodeVerify(self, path) ==
    Outcome(IF self.succeed
            THEN Ok
            ELSE Err(VerificationErrorFrom(self.message)),
            [self EXCEPT !.verified_called = TRUE], <<>>)

RECURSIVE verify(_, _)

\* self.left.verify(); self.right.verify()   (the ? forgotten)
AndVerifyIgnoreLeft(self, path) ==
    LET l == verify(self.left, Append(path, "left"))
        r == verify(self.right, Append(path, "right"))
    IN Outcome(r.result,
               [self EXCEPT !.left = l.self, !.right = r.self],
               l.trace \o r.trace)

\* let l = self.left.verify(); let r = self.right.verify(); l.and(r)
AndVerifyEager(self, path) ==
    LET l == verify(self.left, Append(path, "left"))
        r == verify(self.right, Append(path, "right"))
    IN Outcome(IF IsErr(l.result) THEN l.result ELSE r.result,
               [self EXCEPT !.left = l.self, !.right = r.self],
               l.trace \o r.trace)

\* self.left.verify().map_err(|e| format!("And: {}", e.0))?; ...
AndVerifyWrapped(self, path) ==
    LET l == verify(self.left, Append(path, "left"))
    IN IF IsErr(l.result)
       THEN Outcome(Err(VerificationErrorFrom("And: " \o l.result.error[1])),
                    [self EXCEPT !.left = l.self], l.trace)
       ELSE LET r == verify(self.right, Append(path, "right"))
            IN Outcome(r.result,
                       [self EXCEPT !.left = l.self, !.right = r.self],
                       l.trace \o r.trace)

\* self.right.verify()?; self.left.verify()
AndVerifyRightFirst(self, path) ==
    LET r == verify(self.right, Append(path, "right"))
    IN IF IsErr(r.result)
       THEN Outcome(r.result, [self EXCEPT !.right = r.self], r.trace)
       ELSE LET l == verify(self.left, Append(path, "left"))
            IN Outcome(l.result,
                       [self EXCEPT !.left = l.self, !.right = r.self],
                       r.trace \o l.trace)

\* self.left.verify()?; self.right.verify()
AndVerify(self, path) ==
    LET l == verify(self.left, Append(path, "left"))
    IN IF IsErr(l.result)
       THEN Outcome(l.result, [self EXCEPT !.left = l.self], l.trace)
       ELSE LET r == verify(self.right, Append(path, "right"))
            IN Outcome(r.result,
                       [self EXCEPT !.left = l.self, !.right = r.self],
                       l.trace \o r.trace)

\* self.left.verify().and_then(|_| self.right.verify())
OrVerifyAndThen(self, path) ==
    LET l == verify(self.left, Append(path, "left"))
    IN IF IsErr(l.result)
       THEN Outcome(l.result, [self EXCEPT !.left = l.self], l.trace)
       ELSE LET r == verify(self.right, Append(path, "right"))
            IN Outcome(r.result,
                       [self EXCEPT !.left = l.self, !.right = r.self],
                       l.trace \o r.trace)

\* self.left.verify().or(self.right.verify())
OrVerifyEager(self, path) ==
    LET l == verify(self.left, Append(path, "left"))
        r == verify(self.right, Append(path, "right"))
    IN Outcome(IF IsOk(l.result) THEN l.result ELSE r.result,
               [self EXCEPT !.left = l.self, !.right = r.self],
               l.trace \o r.trace)

\* self.left.verify().or_else(|e| self.right.verify().map_err(|_| e))
OrVerifyKeepFirst(self, path) ==
    LET l == verify(self.left, Append(path, "left"))
    IN IF IsOk(l.result)
       THEN Outcome(l.result, [self EXCEPT !.left = l.self], l.trace)
       ELSE LET r == verify(self.right, Append(path, "right"))
            IN Outcome(IF IsOk(r.result) THEN r.result ELSE l.result,
                       [self EXCEPT !.left = l.self, !.right = r.self],
                       l.trace \o r.trace)

\* self.left.verify().or_else(|_| self.right.verify())
OrVerify(self, path) ==
    LET l == verify(self.left, Append(path, "left"))
    IN IF IsOk(l.result)
       THEN Outcome(l.result, [self EXCEPT !.left = l.self], l.trace)
       ELSE LET r == verify(self.right, Append(path, "right"))
            IN Outcome(r.result,
                       [self EXCEPT !.left = l.self, !.right = r.self],
                       l.trace \o r.trace)

\* Dynamic dispatch of VerificationStep::verify on a Box<dyn VerificationStep>.
\* The invocation is entered in the trace, before those it makes itself.
verify(self, path) ==
    LET out == CASE self.kind = "AlwaysTrue" -> AlwaysTrueVerify(self, path)
                 [] self.kind = "AlwaysFalse" -> AlwaysFalseVerify(self, path)
                 [] self.kind = "Node" -> NodeVerify(self, path)
                 [] self.kind = "And" -> AndVerify(self, path)
                 [] self.kind = "Or" -> OrVerify(self, path)
    IN Outcome(out.result, out.self,
               <<[path |-> path, kind |-> self.kind, result |-> out.result]>>
                   \o out.trace)

--------------------------------------------------------------------------
\* The program: a caller builds a tree of steps and calls verify() on its
\* root any number of times.

Init ==
    /\ IsStep(step)
    /\ results = <<>>
    /\ trace = <<>>

Verify ==
    /\ Len(results) < MaxCalls
    /\ LET out == verify(step, <<>>)
       IN /\ step' = out.self
          /\ results' = Append(results, out.result)
          /\ trace' = out.trace

Next == Verify

Spec == Init /\ [][Next]_vars

--------------------------------------------------------------------------
\* Vocabulary of the properties.

Called == Len(results) > 0

LastResult == results[Len(results)]

\* The Result a step returns when verify() is called on it alone.
ResultOf(s) == verify(s, <<>>).result

IsComposite(s) == s.kind \in {"And", "Or"}

\* No Node of the step has recorded an invocation.
RECURSIVE NoneCalled(_)
NoneCalled(s) ==
    CASE s.kind = "Node" -> ~s.verified_called
      [] IsComposite(s) -> NoneCalled(s.left) /\ NoneCalled(s.right)
      [] OTHER -> TRUE

\* The boolean formula a tree stands for.
RECURSIVE Holds(_)
Holds(s) ==
    CASE s.kind = "AlwaysTrue" -> TRUE
      [] s.kind = "AlwaysFalse" -> FALSE
      [] s.kind = "Node" -> s.succeed
      [] s.kind = "And" -> Holds(s.left) /\ Holds(s.right)
      [] s.kind = "Or" -> Holds(s.left) \/ Holds(s.right)

\* The step found at a path below s.
RECURSIVE StepAt(_, _)
StepAt(s, path) ==
    IF path = <<>> THEN s
    ELSE StepAt(IF Head(path) = "left" THEN s.left ELSE s.right, Tail(path))

\* The invocation at path p was made at or below path q.
Below(p, q) == Len(p) >= Len(q) /\ SubSeq(p, 1, Len(q)) = q

\* Path p lies to the left of path q in the tree.
Precedes(p, q) ==
    \E i \in 1..Len(p) :
        /\ i <= Len(q)
        /\ SubSeq(p, 1, i - 1) = SubSeq(q, 1, i - 1)
        /\ p[i] = "left"
        /\ q[i] = "right"

IsLeafCall(e) == ~(e.kind \in {"And", "Or"})

\* The invocations of leaves made by the last call, in the order made.
LeafCalls == SelectSeq(trace, IsLeafCall)

\* What a leaf returns by its own fields.
OwnResult(s) ==
    CASE s.kind = "AlwaysTrue" -> Ok
      [] s.kind = "AlwaysFalse" -> Err(<<"AlwaysFalse">>)
      [] s.kind = "Node" -> IF s.succeed THEN Ok ELSE Err(<<s.message>>)

--------------------------------------------------------------------------
\* C1: And(a, b).verify() returns success if and only if both a.verify()
\* and b.verify() return success, for leaves and nested composites alike.
AndSucceedsIffBoth ==
    (step.kind = "And" /\ Called) =>
        (IsOk(LastResult) <=>
            (IsOk(ResultOf(left(step))) /\ IsOk(ResultOf(right(step)))))

\* An And over a composite left side was verified and failed on its right.
AndSucceedsIffBothWitness ==
    /\ step.kind = "And"
    /\ IsComposite(left(step))
    /\ Called
    /\ IsOk(ResultOf(left(step)))
    /\ IsErr(ResultOf(right(step)))
    /\ IsErr(LastResult)

\* C2: Or(a, b).verify() returns success if and only if a.verify() returns
\* success or b.verify() returns success.
OrSucceedsIffEither ==
    (step.kind = "Or" /\ Called) =>
        (IsOk(LastResult) <=>
            (IsOk(ResultOf(left(step))) \/ IsOk(ResultOf(right(step)))))

\* An Or whose left side succeeds and whose right side fails was verified.
OrSucceedsIffEitherWitness ==
    /\ step.kind = "Or"
    /\ Called
    /\ IsOk(ResultOf(left(step)))
    /\ IsErr(ResultOf(right(step)))
    /\ IsOk(LastResult)

\* C3: during And(a, b).verify(), a.verify() is invoked first and b.verify()
\* is invoked if and only if a.verify() succeeded; when a fails, no
\* invocation flag of b is set after the call returns.
AndShortCircuits ==
    (step.kind = "And" /\ Called) =>
        /\ Len(trace) >= 2
        /\ trace[1].path = <<>>
        /\ trace[2].path = <<"left">>
        /\ (\E i \in 1..Len(trace) : trace[i].path = <<"right">>)
               <=> IsOk(trace[2].result)
        /\ \A i, j \in 1..Len(trace) :
               (Below(trace[i].path, <<"left">>)
                    /\ Below(trace[j].path, <<"right">>)) => i < j
        /\ IsErr(trace[2].result) =>
               /\ NoneCalled(right(step))
               /\ \A i \in 1..Len(trace) : ~Below(trace[i].path, <<"right">>)

\* and_short_circuits: And(Node(false, "First"), Node(true, "Second")) was
\* verified and the right Node has not been called.
AndShortCircuitsWitness ==
    /\ step.kind = "And"
    /\ left(step).kind = "Node" /\ ~left(step).succeed
    /\ left(step).verified_called
    /\ right(step).kind = "Node" /\ right(step).succeed
    /\ ~right(step).verified_called
    /\ Len(results) = MaxCalls

\* C4: during Or(a, b).verify(), a.verify() is invoked first and b.verify()
\* is invoked if and only if a.verify() failed; when a succeeds, no
\* invocation flag of b is set after the call returns.
OrShortCircuits ==
    (step.kind = "Or" /\ Called) =>
        /\ Len(trace) >= 2
        /\ trace[1].path = <<>>
        /\ trace[2].path = <<"left">>
        /\ (\E i \in 1..Len(trace) : trace[i].path = <<"right">>)
               <=> IsErr(trace[2].result)
        /\ \A i, j \in 1..Len(trace) :
               (Below(trace[i].path, <<"left">>)
                    /\ Below(trace[j].path, <<"right">>)) => i < j
        /\ IsOk(trace[2].result) =>
               /\ NoneCalled(right(step))
               /\ \A i \in 1..Len(trace) : ~Below(trace[i].path, <<"right">>)

\* or_short_circuits: Or(Node(true, "First"), Node(false, "Second")) was
\* verified and the right Node has not been called.
OrShortCircuitsWitness ==
    /\ step.kind = "Or"
    /\ left(step).kind = "Node" /\ left(step).succeed
    /\ left(step).verified_called
    /\ right(step).kind = "Node" /\ ~right(step).succeed
    /\ ~right(step).verified_called
    /\ Len(results) = MaxCalls

\* C5: when And(a, b).verify() fails, the failure returned is the first one
\* met from left to right, a's if a fails and b's otherwise, unchanged: a
\* failing Node's reason is its own message.
AndFailsWithFirstFailure ==
    (step.kind = "And" /\ Called /\ IsErr(LastResult)) =>
        /\ LastResult = IF IsErr(ResultOf(left(step)))
                        THEN ResultOf(left(step))
                        ELSE ResultOf(right(step))
        /\ (left(step).kind = "Node" /\ ~left(step).succeed) =>
               LastResult = Err(<<left(step).message>>)
        /\ (IsOk(ResultOf(left(step))) /\ right(step).kind = "Node") =>
               LastResult = Err(<<right(step).message>>)

\* And(Node(false, "First"), Node(false, "Second")) failed with "First".
AndFailsWithFirstFailureWitness ==
    /\ step.kind = "And"
    /\ left(step).kind = "Node" /\ left(step).message = "First"
    /\ right(step).kind = "Node" /\ right(step).message = "Second"
    /\ ~right(step).succeed
    /\ Called
    /\ LastResult = Err(<<"First">>)

\* C6: when both a and b fail, Or(a, b).verify() fails with exactly b's
\* reason; a's reason is not what is returned.
OrFailsWithRightFailure ==
    (step.kind = "Or" /\ Called
        /\ IsErr(ResultOf(left(step))) /\ IsErr(ResultOf(right(step)))) =>
        /\ LastResult = ResultOf(right(step))
        /\ right(step).kind = "Node" =>
               LastResult = Err(<<right(step).message>>)
        /\ ResultOf(left(step)) # ResultOf(right(step)) =>
               LastResult # ResultOf(left(step))

\* Or(Node(false, "First"), Node(false, "Second")) failed with "Second".
OrFailsWithRightFailureWitness ==
    /\ step.kind = "Or"
    /\ left(step).kind = "Node" /\ left(step).message = "First"
    /\ left(step).verified_called
    /\ right(step).kind = "Node" /\ right(step).message = "Second"
    /\ Called
    /\ LastResult = Err(<<"Second">>)

\* Or(And(true, false), true) and And(Or(true, false), true) over Nodes.
IsOrOfAnd(s) ==
    /\ s.kind = "Or"
    /\ left(s).kind = "And"
    /\ left(left(s)).kind = "Node" /\ left(left(s)).succeed
    /\ right(left(s)).kind = "Node" /\ ~right(left(s)).succeed
    /\ right(s).kind = "Node" /\ right(s).succeed

IsAndOfOr(s) ==
    /\ s.kind = "And"
    /\ left(s).kind = "Or"
    /\ left(left(s)).kind = "Node" /\ left(left(s)).succeed
    /\ right(left(s)).kind = "Node" /\ ~right(left(s)).succeed
    /\ right(s).kind = "Node" /\ right(s).succeed

\* C7: for any tree nested from And and Or over leaves with fixed outcomes,
\* the root verify() succeeds exactly when the boolean formula of the tree
\* is true; Or(And(true, false), true) and And(Or(true, false), true) both
\* succeed.
RootAgreesWithFormula ==
    Called =>
        /\ IsOk(LastResult) <=> Holds(step)
        /\ (IsOrOfAnd(step) \/ IsAndOfOr(step)) => LastResult = Ok

\* composing_or_and_and was verified: all three Nodes were called.
RootAgreesWithFormulaWitness ==
    /\ IsOrOfAnd(step)
    /\ Called
    /\ right(left(step)).verified_called
    /\ right(step).verified_called
    /\ LastResult = Ok

\* C8: repeated verify() calls on the same tree return the same outcome
\* every time, also when leaves record that they were invoked.
RepeatedCallsAgree ==
    \A i, j \in 1..Len(results) : results[i] = results[j]

\* A tree holding a Node that recorded its invocation failed twice.
RepeatedCallsAgreeWitness ==
    /\ Len(results) >= 2
    /\ IsComposite(step)
    /\ ~NoneCalled(step)
    /\ IsErr(results[1])
    /\ IsErr(results[2])

\* C9: every failure verify() returns, from a leaf or from any And/Or tree,
\* carries a non-empty reason text.
FailureReasonNonEmpty ==
    /\ \A i \in 1..Len(results) :
           IsErr(results[i]) => results[i].error[1] # ""
    /\ \A i \in 1..Len(trace) :
           IsErr(trace[i].result) => trace[i].result.error[1] # ""

\* C10: in one root verify() call every leaf is invoked at most once, leaves
\* are invoked in left-to-right tree order, and the root returns the outcome
\* of the last leaf invoked: success, or that leaf's own reason.
LastLeafDecides ==
    Called =>
        /\ Len(LeafCalls) >= 1
        /\ \A i, j \in 1..Len(LeafCalls) :
               i < j => Precedes(LeafCalls[i].path, LeafCalls[j].path)
        /\ \A i \in 1..Len(LeafCalls) :
               LeafCalls[i].result = OwnResult(StepAt(step, LeafCalls[i].path))
        /\ LastResult = LeafCalls[Len(LeafCalls)].result

\* And(Or(a, b), c) with a and b failing: two of three leaves were invoked
\* and the call failed.
LastLeafDecidesWitness ==
    /\ step.kind = "And"
    /\ left(step).kind = "Or"
    /\ ~IsComposite(right(step))
    /\ Called
    /\ Len(LeafCalls) = 2
    /\ IsErr(LastResult)

====
